---- MODULE Spec2Model ----
(***************************************************************************)
(* Per-CPU time accounting of the kernel (kernel/src/time/cpu_stat.rs):    *)
(* the CpuStatManager singleton, its increment operations, the timer       *)
(* callback update_cpu_statistics that classifies each tick, and init.     *)
(*                                                                         *)
(* CPUs are numbered from 0 as in the code; per_cpu_stats is a sequence,   *)
(* so the bundle of CPU c is per_cpu_stats[c + 1].                         *)
(***************************************************************************)
EXTENDS Integers, Sequences, FiniteSets, TLC

\* ------------------------------------------------------------------ bounds
\* Largest value ostd::cpu::num_cpus() takes in the model.
MaxCpus == 2
\* Timer interrupts delivered, over all CPUs.
MaxTicks == 2
\* Calls of init().
MaxInit == 2
\* Largest `val` a direct call of inc_*_time passes.
MaxVal == 2
\* Direct calls of inc_*_time made, over all calling contexts.
MaxCalls == 2

\* ------------------------------------------------------------------- state
VARIABLES
    num_cpus,   \* what ostd::cpu::num_cpus() returns (fixed at boot)
    instance,   \* static INSTANCE: Once<Arc<CpuStatManager>>: None or the manager
    callbacks,  \* registrations of update_cpu_statistics with the timer
    inits,      \* calls of init() that have passed call_once
    irq,        \* per CPU: the timer interrupt / increment call in progress
    added,      \* per CPU: units the timer interrupt in progress has added (history)
    ticks,      \* per CPU and category: timer interrupts completed (history)
    calls,      \* per CPU: the direct calls of inc_*_time made there (history)
    reinit,     \* a call of init() found counters already above zero (history)
    rd,         \* the read in progress (snapshot accessor or /proc producer)
    now,        \* clock ticks elapsed since boot (the monotonic clock)
    panicked    \* a fatal condition was hit (unwrap on None, index out of bounds)

vars ==
    <<num_cpus, instance, callbacks, inits, irq, added, ticks, calls, reinit,
      rd, now, panicked>>

\* Once<T>: empty until call_once has run, then holding the value for good.
None == <<>>

Some(m) == <<m>>

\* Option::unwrap of a value that is there
unwrap(inst) == inst[1]

\* The ten counters of struct Cpustat / _Cpustat, in declaration order.
Fields ==
    <<"user", "nice", "system", "idle", "iowait",
      "irq", "softirq", "steal", "guest", "guest_nice">>

FieldSet == {Fields[i] : i \in 1..Len(Fields)}

\* The categories update_cpu_statistics accounts.
Categories == {"user", "system", "idle"}

\* The scheduling policy of Thread::current(), or NoThread when there is none.
Threads == {"Idle", "Other", "NoThread"}

CpuIds == 0..(num_cpus - 1)

RECURSIVE SumTo(_, _)
\* f(0) + ... + f(n - 1) for a function f on 0..n-1
SumTo(f, n) == IF n = 0 THEN 0 ELSE f[n - 1] + SumTo(f, n - 1)

\* ------------------------------------------------------------ Tick Counter
\* CpuClock (kernel/src/time/clocks, not part of the sources at hand): an
\* atomic counter of jiffies.
CpuClock_new == 0

add_jiffies(clock, val) == clock + val

read_jiffies(clock) == clock

\* ----------------------------------------------------------- Counter Bundle
Cpustat_new == [f \in FieldSet |-> CpuClock_new]

\* _Cpustat::load as one atomic read of the ten counters (valid when no
\* increment runs concurrently).
load(stat) == [f \in FieldSet |-> read_jiffies(stat[f])]

\* ------------------------------------------------------------ Stat Manager
CpuStatManager_new(n) ==
    [per_cpu_stats |-> [i \in 1..n |-> Cpustat_new],
     global_stats  |-> Cpustat_new]

\* CpuStatManager::get: INSTANCE.get().unwrap()
get_panics(inst) == inst = None

get_on_cpu(m, cpu) == load(m.per_cpu_stats[cpu + 1])

get_global(m) == load(m.global_stats)

\* Every line of _Cpustat::load reading the first counter.
load_field_first(stat, f) == read_jiffies(stat["user"])

\* One line of _Cpustat::load: the atomic read of one counter.
load_field(stat, f) == read_jiffies(stat[f])

\* The bundle a read is made of: global_stats for get_global(),
\* per_cpu_stats[cpu] for get_on_cpu(cpu).
bundle_of(m, target) ==
    IF target = -1 THEN m.global_stats ELSE m.per_cpu_stats[target + 1]

\* The bounds check written with <= where < is meant.
in_range_inclusive(m, cpu) == cpu <= Len(m.per_cpu_stats)

\* `if cpu < self.per_cpu_stats.len()` of the three inc_*_time functions
in_range(m, cpu) == cpu < Len(m.per_cpu_stats)

\* The bounds check of the indexing refusing the last element.
index_ok_short(m, cpu) == cpu + 2 \in DOMAIN m.per_cpu_stats

\* self.per_cpu_stats[cpu] is an indexing that panics out of bounds
index_ok(m, cpu) == cpu + 1 \in DOMAIN m.per_cpu_stats

\* get_on_cpu guarded the way the increments are, answering an all-zero
\* bundle for a cpu out of range.
per_cpu_stats_guarded(m, cpu) ==
    IF in_range(m, cpu) THEN Some(m.per_cpu_stats[cpu + 1])
    ELSE Some([f \in FieldSet |-> 0])

\* `self.per_cpu_stats[cpu]` of get_on_cpu: the bundle, or None for the
\* out-of-bounds panic.
per_cpu_stats_index(m, cpu) ==
    IF index_ok(m, cpu) THEN Some(m.per_cpu_stats[cpu + 1]) ELSE None

\* inc_user_time with the global counter in the place of the per-CPU one.
inc_user_time_percpu_global(m, cpu, val) ==
    [m EXCEPT !.global_stats.user = add_jiffies(@, val)]

\* first statement of each inc_*_time: the add to the per-CPU counter
inc_user_time_percpu(m, cpu, val) ==
    [m EXCEPT !.per_cpu_stats[cpu + 1].user = add_jiffies(@, val)]

inc_system_time_percpu(m, cpu, val) ==
    [m EXCEPT !.per_cpu_stats[cpu + 1].system = add_jiffies(@, val)]

\* inc_idle_time indexing the bundle of CPU 0 whatever cpu is.
inc_idle_time_percpu_first(m, cpu, val) ==
    [m EXCEPT !.per_cpu_stats[1].idle = add_jiffies(@, val)]

inc_idle_time_percpu(m, cpu, val) ==
    [m EXCEPT !.per_cpu_stats[cpu + 1].idle = add_jiffies(@, val)]

\* second statement of each inc_*_time: the add to the global counter
inc_user_time_global(m, val) ==
    [m EXCEPT !.global_stats.user = add_jiffies(@, val)]

\* inc_system_time adding to the irq counter of the global bundle.
inc_system_time_global_irq(m, val) ==
    [m EXCEPT !.global_stats.irq = add_jiffies(@, val)]

inc_system_time_global(m, val) ==
    [m EXCEPT !.global_stats.system = add_jiffies(@, val)]

\* inc_idle_time without its add to the global counter.
inc_idle_time_global_missing(m, val) == m

\* inc_idle_time adding val to the global counter twice.
inc_idle_time_global_twice(m, val) ==
    [m EXCEPT !.global_stats.idle = add_jiffies(add_jiffies(@, val), val)]

inc_idle_time_global(m, val) ==
    [m EXCEPT !.global_stats.idle = add_jiffies(@, val)]

inc_percpu(m, k, cpu, val) ==
    CASE k = "user"   -> inc_user_time_percpu(m, cpu, val)
      [] k = "system" -> inc_system_time_percpu(m, cpu, val)
      [] k = "idle"   -> inc_idle_time_percpu(m, cpu, val)

inc_global(m, k, val) ==
    CASE k = "user"   -> inc_user_time_global(m, val)
      [] k = "system" -> inc_system_time_global(m, val)
      [] k = "idle"   -> inc_idle_time_global(m, val)

\* ---------------------------------------------------------- Tick Classifier
\* is_idle answering true when there is no current thread.
is_idle_without_thread(thread) ==
    IF thread # "NoThread" THEN thread = "Idle" ELSE TRUE

is_idle(thread) ==
    IF thread # "NoThread" THEN thread = "Idle" ELSE FALSE

\* The classification with the privilege level tested before the idle policy.
classify_kernel_first(thread, is_kernel) ==
    IF is_kernel THEN "system"
    ELSE IF is_idle(thread) THEN "idle"
    ELSE "user"

\* the category update_cpu_statistics accounts the tick to
classify(thread, is_kernel) ==
    IF is_idle(thread) THEN "idle"
    ELSE IF is_kernel THEN "system"
    ELSE "user"

\* -------------------------------------------------------------------- init
\* An initialisation that builds a new manager on every call.
call_once_replace(inst, n) == Some(CpuStatManager_new(n))

\* An initialisation that only looks the instance up (get in place of call_once).
call_once_get(inst, n) == inst

\* INSTANCE.call_once(|| Arc::new(CpuStatManager::new(num_cpus)))
call_once(inst, n) ==
    IF inst = None THEN Some(CpuStatManager_new(n)) ELSE inst

\* ostd::timer::register_callback: the callback is added to the list the
\* timer interrupt runs
register_callback(cbs) == cbs + 1

\* ------------------------------------------------------------ initial state
\* A CPU on which neither a timer interrupt nor an increment is in progress.
IrqIdle ==
    [pending |-> 0, pc |-> "none", thread |-> "NoThread", is_kernel |-> FALSE,
     k |-> "user", cpu |-> 0, val |-> 0]

\* Nothing added yet by the timer interrupt in progress.
NoneAdded ==
    [percpu |-> [k \in Categories |-> 0], global |-> [k \in Categories |-> 0]]

NoCalls == [n |-> 0, k |-> "user", cpu |-> 0, val |-> 0]

\* The target of get_global(), next to the CPU numbers get_on_cpu() takes.
GlobalTarget == -1

\* No snapshot is held.
NoSnapshot == <<>>

\* A snapshot (struct Cpustat) no field of which has been loaded yet.
Unfilled == [f \in FieldSet |-> 0]

\* No read in progress and no result held. todo are the bundles the reader
\* has still to read, pos is the next field of the load in progress, begin
\* the counters of its bundle when the load was called, lines the snapshots
\* a producer has rendered, uptime the clock value collect_uptime has read.
RdIdle ==
    [pc |-> "idle", op |-> "none", target |-> GlobalTarget,
     todo |-> <<>>, pos |-> 1, snap |-> NoSnapshot, begin |-> NoSnapshot,
     lines |-> <<>>, uptime |-> 0]

InitCommon ==
    /\ num_cpus \in 1..MaxCpus
    /\ irq = [c \in CpuIds |-> IrqIdle]
    /\ added = [c \in CpuIds |-> NoneAdded]
    /\ ticks = [c \in CpuIds |-> [k \in Categories |-> 0]]
    /\ calls = [c \in CpuIds |-> NoCalls]
    /\ reinit = FALSE
    /\ rd = RdIdle
    /\ now = 0
    /\ panicked = FALSE

\* The kernel before init() has run.
Init ==
    /\ InitCommon
    /\ instance = None
    /\ callbacks = 0
    /\ inits = 0

\* ----------------------------------------------------------------- actions
\* some counter of the global bundle is above zero
Counted(m) == \E f \in FieldSet : m.global_stats[f] > 0

\* init(), first statement: INSTANCE.call_once(...)
InitCallOnce ==
    /\ inits < MaxInit
    /\ instance' = call_once(instance, num_cpus)
    /\ inits' = inits + 1
    /\ reinit' = (reinit \/ (instance # None /\ Counted(unwrap(instance))))
    /\ UNCHANGED <<num_cpus, callbacks, irq, added, ticks, calls, panicked>>
    /\ UNCHANGED <<rd, now>>

\* init(), second statement: ostd::timer::register_callback(update_cpu_statistics),
\* by a call that has passed call_once
InitRegister ==
    /\ callbacks < inits
    /\ callbacks' = register_callback(callbacks)
    /\ UNCHANGED <<num_cpus, instance, inits, irq, added, ticks, calls, reinit,
                   panicked>>
    /\ UNCHANGED <<rd, now>>

\* neither a timer interrupt nor an increment is in progress on CPU c
Quiescent(c) == irq[c] = IrqIdle

TicksOn(c) == ticks[c]["user"] + ticks[c]["system"] + ticks[c]["idle"]

\* A timer interrupt arrives on CPU c: every registered callback is to run.
\* thread and is_kernel are what Thread::current() and
\* is_kernel_interrupted() answer during this interrupt.
TimerIrq(c, thread, is_kernel) ==
    /\ ~panicked
    /\ callbacks > 0
    /\ irq[c].pending = 0
    /\ irq[c].pc = "none"
    /\ irq' = [irq EXCEPT ![c] =
                  [IrqIdle EXCEPT !.pending = callbacks, !.thread = thread,
                                  !.is_kernel = is_kernel]]
    /\ UNCHANGED <<num_cpus, instance, callbacks, inits, added, ticks, calls,
                   reinit, panicked>>
    /\ UNCHANGED <<rd, now>>

\* The increment call of CPU c's context returns to its caller. With the
\* last registered callback the timer interrupt ends.
Return(c, k) ==
    /\ irq' = [irq EXCEPT ![c] =
                  IF irq[c].pending > 1
                  THEN [IrqIdle EXCEPT !.pending = irq[c].pending - 1,
                                       !.thread = irq[c].thread,
                                       !.is_kernel = irq[c].is_kernel]
                  ELSE IrqIdle]
    /\ ticks' = IF irq[c].pending = 1
                THEN [ticks EXCEPT ![c][k] = @ + 1]
                ELSE ticks
    /\ added' = IF irq[c].pending > 1
                THEN [added EXCEPT ![c].global[k] = @ + irq[c].val]
                ELSE [added EXCEPT ![c] = NoneAdded]

\* The call inc_<k>_time(cpu, val) made by the context of CPU c, up to and
\* including the add to the per-CPU counter.
IncEnter(c, k, cpu, val) ==
    IF in_range(unwrap(instance), cpu)
    THEN IF index_ok(unwrap(instance), cpu)
         THEN /\ instance' = Some(inc_percpu(unwrap(instance), k, cpu, val))
              /\ irq' = [irq EXCEPT ![c].pc = "global", ![c].k = k,
                                    ![c].cpu = cpu, ![c].val = val]
              /\ added' = IF irq[c].pending > 0
                          THEN [added EXCEPT ![c].percpu[k] = @ + val]
                          ELSE added
              /\ UNCHANGED <<ticks, panicked>>
         ELSE /\ panicked' = TRUE
              /\ UNCHANGED <<instance, irq, added, ticks>>
    ELSE /\ Return(c, k)
         /\ UNCHANGED <<instance, panicked>>

\* update_cpu_statistics on CPU c, from its entry to the first add of the
\* inc_*_time it calls.
UpdateCpuStatistics(c) ==
    /\ ~panicked
    /\ irq[c].pending > 0
    /\ irq[c].pc = "none"
    /\ IF get_panics(instance)
       THEN /\ panicked' = TRUE
            /\ UNCHANGED <<instance, irq, added, ticks>>
       ELSE IncEnter(c, classify(irq[c].thread, irq[c].is_kernel), c, 1)
    /\ UNCHANGED <<num_cpus, callbacks, inits, calls, reinit>>
    /\ UNCHANGED <<rd, now>>

\* The second add of inc_*_time, to the global counter, after which the call
\* returns.
IncGlobal(c) ==
    /\ ~panicked
    /\ irq[c].pc = "global"
    /\ instance' = Some(inc_global(unwrap(instance), irq[c].k, irq[c].val))
    /\ Return(c, irq[c].k)
    /\ UNCHANGED <<num_cpus, callbacks, inits, calls, reinit, panicked>>
    /\ UNCHANGED <<rd, now>>

\* the timer interrupts delivered so far, completed or in progress
TicksDelivered ==
    SumTo([c \in CpuIds |-> TicksOn(c) + IF irq[c].pending > 0 THEN 1 ELSE 0],
          num_cpus)

\* A timer interrupt of the running kernel: at most MaxTicks in all.
Tick ==
    /\ TicksDelivered < MaxTicks
    /\ \E c \in CpuIds, thread \in Threads, is_kernel \in BOOLEAN :
          TimerIrq(c, thread, is_kernel)

Next ==
    \/ InitCallOnce
    \/ InitRegister
    \/ Tick
    \/ \E c \in CpuIds : UpdateCpuStatistics(c)
    \/ \E c \in CpuIds : IncGlobal(c)

Spec == Init /\ [][Next]_vars

\* ------------------------------------------------------ ticks after boot
\* The kernel after boot, init() having been called once or more.
InitBootedAny ==
    /\ InitCommon
    /\ instance = call_once(None, num_cpus)
    /\ inits \in 1..MaxInit
    /\ callbacks = inits

\* The timer interrupts of the booted kernel, on all CPUs.
NextTicks ==
    \/ Tick
    \/ \E c \in CpuIds : UpdateCpuStatistics(c)
    \/ \E c \in CpuIds : IncGlobal(c)

SpecTicks == InitBootedAny /\ [][NextTicks]_vars

\* ----------------------------------------------------------- the readers
\* The kernel after boot: init() has been called and has returned, and no
\* tick has been accounted yet. (A second registration of the callback only
\* makes a tick add once more to the same counters, which a further tick on
\* the same CPU does as well.)
InitBooted ==
    /\ InitCommon
    /\ instance = call_once(None, num_cpus)
    /\ inits = 1
    /\ callbacks = register_callback(0)

\* The reading task runs in task context: on a CPU that is not inside its
\* timer interrupt.
TaskRuns == \E c \in CpuIds : Quiescent(c)

\* collect_stats reading the per-CPU bundles from CPU 1 on.
stat_targets_from_one(n) == <<GlobalTarget>> \o [i \in 1..(n - 1) |-> i]

\* collect_stats reading the global bundle after the per-CPU bundles.
stat_targets_global_last(n) == [i \in 1..n |-> i - 1] \o <<GlobalTarget>>

\* The reads collect_stats makes for cpu_count = n: get_global(), then
\* get_on_cpu(cpu_id) for cpu_id in 0..cpu_count.
stat_targets(n) == <<GlobalTarget>> \o [i \in 1..n |-> i - 1]

\* A line of /proc/stat: "cpu" (label GlobalTarget) or "cpu<id>", then the
\* ten values of the snapshot in the order they are printed.
stat_line(id, stat) ==
    [label |-> id, values |-> [i \in 1..Len(Fields) |-> stat[Fields[i]]]]

\* The reads each operation makes, in order: a snapshot accessor reads one
\* bundle, collect_uptime the global bundle, collect_stats all of them.
targets_of(op, cpu, n) ==
    IF op = "get_on_cpu" THEN <<cpu>>
    ELSE IF op = "stat" THEN stat_targets(n)
    ELSE <<GlobalTarget>>

\* the two snapshot accessors, called by themselves
Accessors == {"get_global", "get_on_cpu"}

\* The reader r calls get_global() or get_on_cpu() for the first bundle of
\* r.todo: the indexing of per_cpu_stats is checked, the load begins. (The
\* history field begin is kept for the accessors called by themselves.)
CallGet(r) ==
    LET target == Head(r.todo)
        got == IF target = GlobalTarget
               THEN Some(unwrap(instance).global_stats)
               ELSE per_cpu_stats_index(unwrap(instance), target)
    IN  IF got # None
        THEN /\ rd' = [r EXCEPT !.pc = "load", !.target = target,
                                !.todo = Tail(r.todo), !.pos = 1,
                                !.snap = Unfilled,
                                !.begin = IF r.op \in Accessors
                                          THEN load(unwrap(got))
                                          ELSE NoSnapshot]
             /\ UNCHANGED panicked
        ELSE /\ rd' = [r EXCEPT !.pc = "fault", !.target = target]
             /\ panicked' = TRUE

\* A task starts a read: it takes the manager (cpu_stat_manager(), which
\* unwraps INSTANCE) and calls the first load.
ReadStart(op, cpu) ==
    /\ ~panicked
    /\ rd.pc \in {"idle", "done"}
    /\ TaskRuns
    /\ IF get_panics(instance)
       THEN /\ panicked' = TRUE
            /\ rd' = [RdIdle EXCEPT !.pc = "fault", !.op = op]
       ELSE CallGet([RdIdle EXCEPT
                        !.op = op,
                        !.todo = targets_of(op, cpu, num_cpus),
                        !.uptime = IF op = "uptime" THEN now ELSE 0])
    /\ UNCHANGED <<num_cpus, instance, callbacks, inits, irq, added, ticks,
                   calls, reinit, now>>

\* The next line of _Cpustat::load: one counter is read into the snapshot.
\* With the last line the load returns; a producer renders the snapshot as
\* a line and calls the next read it has to make.
LoadField ==
    /\ ~panicked
    /\ rd.pc = "load"
    /\ TaskRuns
    /\ LET f == Fields[rd.pos]
           snap == [rd.snap EXCEPT
                       ![f] = load_field(bundle_of(unwrap(instance), rd.target), f)]
       IN  IF rd.pos < Len(Fields)
           THEN /\ rd' = [rd EXCEPT !.snap = snap, !.pos = rd.pos + 1]
                /\ UNCHANGED panicked
           ELSE LET r == [rd EXCEPT
                             !.snap = snap, !.pos = rd.pos + 1,
                             !.lines = IF rd.op = "stat"
                                       THEN Append(@, stat_line(rd.target, snap))
                                       ELSE @]
                IN  IF r.todo = <<>>
                    THEN /\ rd' = [r EXCEPT !.pc = "done"]
                         /\ UNCHANGED panicked
                    ELSE CallGet(r)
    /\ UNCHANGED <<num_cpus, instance, callbacks, inits, irq, added, ticks,
                   calls, reinit, now>>

\* get_global() or get_on_cpu(cpu), with any cpu.
Read ==
    \E op \in Accessors, cpu \in 0..MaxCpus :
        /\ op = "get_global" => cpu = 0
        /\ ReadStart(op, cpu)

NextRead ==
    \/ Tick
    \/ \E c \in CpuIds : UpdateCpuStatistics(c)
    \/ \E c \in CpuIds : IncGlobal(c)
    \/ Read
    \/ LoadField

SpecRead == InitBooted /\ [][NextRead]_vars

\* ------------------------------------------------------------- /proc/stat
\* collect_stats: cpu_count = num_cpus(), the manager, then the reads.
Render == ReadStart("stat", 0)

NextStat ==
    \/ Tick
    \/ \E c \in CpuIds : UpdateCpuStatistics(c)
    \/ \E c \in CpuIds : IncGlobal(c)
    \/ Render
    \/ LoadField

SpecStat == InitBooted /\ [][NextStat]_vars

\* /proc/stat rendered while no tick callback is in progress: the render
\* begins when none is, and no timer interrupt arrives before it has ended.
QuietRender ==
    /\ \A c \in CpuIds : Quiescent(c)
    /\ Render

TickOutsideRender ==
    /\ rd.pc # "load"
    /\ Tick

NextStatQuiet ==
    \/ TickOutsideRender
    \/ \E c \in CpuIds : UpdateCpuStatistics(c)
    \/ \E c \in CpuIds : IncGlobal(c)
    \/ QuietRender
    \/ LoadField

SpecStatQuiet == InitBooted /\ [][NextStatQuiet]_vars

\* ----------------------------------------------------------- /proc/uptime
\* The monotonic clock advances by one tick.
ClockTick ==
    /\ ~panicked
    /\ now < MaxTicks
    /\ now' = now + 1
    /\ UNCHANGED <<num_cpus, instance, callbacks, inits, irq, added, ticks,
                   calls, reinit, rd, panicked>>

\* The timer interrupts of a clocked kernel: each CPU receives one per tick
\* of the clock, at some time after the clock has advanced. The callback
\* runs at most MaxTicks times in all, once per registration and interrupt.
ClockedTick ==
    /\ callbacks * (TicksDelivered + 1) <= MaxTicks
    /\ \E c \in CpuIds, thread \in Threads, is_kernel \in BOOLEAN :
          /\ TicksOn(c) < now
          /\ TimerIrq(c, thread, is_kernel)

\* collect_uptime: the monotonic clock is read, then the manager is taken
\* and get_global() called.
Uptime == ReadStart("uptime", 0)

NextUptime ==
    \/ ClockTick
    \/ ClockedTick
    \/ \E c \in CpuIds : UpdateCpuStatistics(c)
    \/ \E c \in CpuIds : IncGlobal(c)
    \/ Uptime
    \/ LoadField

SpecUptime == InitBootedAny /\ [][NextUptime]_vars

\* --------------------------------------------- inc_*_time called directly
\* The three increment operations taken by themselves: the manager exists,
\* and each context calls inc_<k>_time(cpu, val) with any cpu, in range or
\* not.
InitInc ==
    /\ InitCommon
    /\ instance = call_once(None, num_cpus)
    /\ callbacks = 0
    /\ inits = 1

\* the direct calls made so far
CallsMade == SumTo([c \in CpuIds |-> calls[c].n], num_cpus)

DirectInc(c, k, cpu, val) ==
    /\ ~panicked
    /\ irq[c].pc = "none"
    /\ calls' = [calls EXCEPT ![c] =
                    [n |-> calls[c].n + 1, k |-> k, cpu |-> cpu, val |-> val]]
    /\ IncEnter(c, k, cpu, val)
    /\ UNCHANGED <<num_cpus, callbacks, inits, reinit>>
    /\ UNCHANGED <<rd, now>>

\* A direct call, with any arguments: at most MaxCalls in all.
Call ==
    /\ CallsMade < MaxCalls
    /\ \E c \in CpuIds, k \in Categories, cpu \in 0..MaxCpus, val \in 1..MaxVal :
          DirectInc(c, k, cpu, val)

NextInc ==
    \/ Call
    \/ \E c \in CpuIds : IncGlobal(c)

SpecInc == InitInc /\ [][NextInc]_vars

\* ------------------------------------------------- the end-to-end scenario
\* Boot with 2 CPUs; E2EIdleTicks timer ticks on CPU0, all with an
\* idle-policy current thread, and E2ESystemTicks on CPU1, all kernel-mode
\* with a thread of another policy.
E2ECpus == 2

E2EIdleTicks == 100

E2ESystemTicks == 50

InitE2E ==
    /\ Init
    /\ num_cpus = E2ECpus

\* Boot is over: every call of init() made has returned.
Booted == inits > 0 /\ callbacks = inits

\* The calls of init() are made during boot, before the first tick of the
\* scenario is injected.
E2EBootCallOnce ==
    /\ \A c \in CpuIds : Quiescent(c) /\ TicksOn(c) = 0
    /\ InitCallOnce

E2EBootRegister ==
    /\ \A c \in CpuIds : Quiescent(c) /\ TicksOn(c) = 0
    /\ InitRegister

E2ETickCpu0(is_kernel) ==
    /\ Booted
    /\ TicksOn(0) < E2EIdleTicks
    /\ TimerIrq(0, "Idle", is_kernel)

E2ETickCpu1 ==
    /\ Booted
    /\ TicksOn(1) < E2ESystemTicks
    /\ TimerIrq(1, "Other", TRUE)

NextE2E ==
    \/ E2EBootCallOnce
    \/ E2EBootRegister
    \/ \E b \in BOOLEAN : E2ETickCpu0(b)
    \/ E2ETickCpu1
    \/ \E c \in CpuIds : UpdateCpuStatistics(c)
    \/ \E c \in CpuIds : IncGlobal(c)

SpecE2E == InitE2E /\ [][NextE2E]_vars

\* ------------------------------------------------------------------ claims
PerCpu(c) == unwrap(instance).per_cpu_stats[c + 1]

Global == unwrap(instance).global_stats

\* the sum over all CPUs of per_cpu[c].k
PerCpuSum(k) == SumTo([c \in CpuIds |-> PerCpu(c)[k]], num_cpus)

\* the timer interrupts completed on all CPUs and classified as k
TickSum(k) == SumTo([c \in CpuIds |-> ticks[c][k]], num_cpus)

\* C1: no lost updates. When no timer interrupt is in progress on CPU c,
\* per_cpu[c].k equals the number of timer ticks completed on c and classified
\* as k; when none is in progress on any CPU, global.k equals the number of
\* ticks completed on all CPUs and classified as k.
NoLostUpdates ==
    instance # None =>
        /\ \A c \in CpuIds : Quiescent(c) =>
              \A k \in Categories : PerCpu(c)[k] = ticks[c][k]
        /\ (\A c \in CpuIds : Quiescent(c)) =>
              \A k \in Categories : Global[k] = TickSum(k)

\* C2, as stated: in every reachable state, the states between the two adds
\* of an increment included, global.k >= the sum over all CPUs of per_cpu[c].k.
GlobalAtLeastPerCpuSum ==
    instance # None => \A k \in Categories : Global[k] >= PerCpuSum(k)

\* C2, amended: in every reachable state global.k <= the sum over all CPUs
\* of per_cpu[c].k, because each increment adds to the per-CPU counter first.
GlobalAtMostPerCpuSum ==
    instance # None => \A k \in Categories : Global[k] <= PerCpuSum(k)

\* An increment is between its two adds: the per-CPU sum is ahead of the
\* global counter.
BetweenTheTwoAdds ==
    /\ instance # None
    /\ \E c \in CpuIds : irq[c].pc = "global" /\ irq[c].pending > 0
    /\ \E k \in Categories : Global[k] < PerCpuSum(k)

\* the step is one of the timer callback on CPU c
CallbackStep(c) == irq[c].pending > 0 /\ irq'[c] # irq[c]

\* C3: idle precedence. Every step of a timer tick on a CPU whose current
\* thread has the idle policy leaves every counter other than idle unchanged,
\* in that CPU's bundle and in the global bundle, whether the interrupted
\* context was kernel-mode or user-mode; its first add raises per_cpu[c].idle
\* by one and its second add raises global.idle by one.
IdlePrecedence ==
    [][\A c \in CpuIds :
          (CallbackStep(c) /\ irq[c].thread = "Idle") =>
              /\ instance' # None
              /\ \A f \in FieldSet \ {"idle"} :
                    /\ PerCpu(c)'[f] = PerCpu(c)[f]
                    /\ Global'[f] = Global[f]
              /\ irq[c].pc = "none" =>
                    /\ PerCpu(c)'["idle"] = PerCpu(c)["idle"] + 1
                    /\ Global'["idle"] = Global["idle"]
              /\ irq[c].pc = "global" =>
                    /\ PerCpu(c)'["idle"] = PerCpu(c)["idle"]
                    /\ Global'["idle"] = Global["idle"] + 1]_vars

\* A tick with an idle-policy thread interrupted in kernel mode has been
\* accounted and another, interrupted in user mode, is between its adds.
IdleTickBothModes ==
    \E c \in CpuIds :
        /\ irq[c].thread = "Idle"
        /\ ~irq[c].is_kernel
        /\ irq[c].pc = "global"
        /\ \E d \in CpuIds :
              /\ d # c
              /\ irq[d].thread = "Idle"
              /\ irq[d].is_kernel
              /\ irq[d].pc = "global"

\* one unit of category k and nothing else
Unit(k) == [j \in Categories |-> IF j = k THEN 1 ELSE 0]

\* C4: one unit per tick. When the timer tick of a CPU whose current thread
\* does not have the idle policy is at its last step (the add to the global
\* counter of its last callback), the tick has added exactly one unit to
\* per_cpu[c], to the system counter if the interrupted context was
\* kernel-mode and to the user counter otherwise, nothing yet to the global
\* bundle, and that last step adds one unit to the same-named global counter.
OneUnitPerTick ==
    \A c \in CpuIds :
        (irq[c].pending = 1 /\ irq[c].pc = "global" /\ irq[c].thread # "Idle") =>
            LET k == IF irq[c].is_kernel THEN "system" ELSE "user" IN
            /\ added[c].percpu = Unit(k)
            /\ added[c].global = NoneAdded.global
            /\ irq[c].k = k
            /\ irq[c].val = 1

\* C5: an increment with cpu >= num_cpus is a no-op. A direct call
\* inc_<k>_time(cpu, val) with cpu >= num_cpus returns at once, without a
\* fault, and leaves every counter of every per-CPU bundle and of the global
\* bundle as it was.
OutOfRangeIncIsNoOp ==
    [][\A c \in CpuIds :
          (calls'[c].n = calls[c].n + 1 /\ calls'[c].cpu >= num_cpus) =>
              /\ instance' = instance
              /\ irq'[c] = IrqIdle
              /\ ~panicked']_vars

\* An out-of-range increment was made when counters were already above zero.
OutOfRangeIncMade ==
    \E c \in CpuIds :
        /\ calls[c].n > 1
        /\ calls[c].cpu >= num_cpus
        /\ irq[c] = IrqIdle
        /\ Global[calls[c].k] > 0
        /\ ~panicked

\* no counter of the bundle is lower in `new` than in `old`
NotLowered(old, new) == new = old \/ \A f \in FieldSet : new[f] >= old[f]

\* C6: monotonicity. Once the manager exists, no step (of init, of a tick)
\* lowers any counter of any per-CPU bundle or of the global bundle, and the
\* manager stays in place with the same number of per-CPU bundles.
Monotonic ==
    [][instance # None =>
          \/ instance' = instance
          \/ /\ instance' # None
             /\ LET old == unwrap(instance)
                    new == unwrap(instance')
                IN  /\ Len(new.per_cpu_stats) = Len(old.per_cpu_stats)
                    /\ NotLowered(old.global_stats, new.global_stats)
                    /\ \A i \in 1..Len(old.per_cpu_stats) :
                          NotLowered(old.per_cpu_stats[i], new.per_cpu_stats[i])]_vars

\* Counters have been raised more than once, with a call of init in between
\* or after.
CountersRaisedAcrossInit ==
    /\ instance # None
    /\ reinit
    /\ \E c \in CpuIds, k \in Categories : PerCpu(c)[k] >= 2 /\ Global[k] >= 2

\* a snapshot with the given idle and system values and zero elsewhere
SnapshotOf(idle, system) ==
    [f \in FieldSet |->
        IF f = "idle" THEN idle ELSE IF f = "system" THEN system ELSE 0]

\* C7: end to end. With 2 CPUs, once exactly 100 ticks on CPU0, all with an
\* idle-policy thread, and exactly 50 ticks on CPU1, all kernel-mode with a
\* non-idle thread, have completed, get_on_cpu(0).idle = 100,
\* get_on_cpu(1).system = 50, get_global().idle = 100,
\* get_global().system = 50 and every other counter of every bundle is 0.
EndToEnd ==
    (/\ instance # None
     /\ \A c \in CpuIds : Quiescent(c)
     /\ ticks[0] = [Unit("idle") EXCEPT !["idle"] = 100]
     /\ ticks[1] = [Unit("system") EXCEPT !["system"] = 50]) =>
        /\ get_on_cpu(unwrap(instance), 0) = SnapshotOf(100, 0)
        /\ get_on_cpu(unwrap(instance), 1) = SnapshotOf(0, 50)
        /\ get_global(unwrap(instance)) = SnapshotOf(100, 50)

\* C8: a repeated call of init is a no-op. The timer holds one registration
\* of update_cpu_statistics however often init has been called, so each timer
\* tick runs the callback once.
RepeatedInitIsNoOp ==
    /\ callbacks <= 1
    /\ \A c \in CpuIds : irq[c].pending <= 1

\* C9: the manager is created at most once. A step of init taken when the
\* manager exists leaves the manager, the number of its per-CPU bundles and
\* every counter value as they were.
InitKeepsManager ==
    [][(instance # None /\ (inits' # inits \/ callbacks' # callbacks)) =>
          instance' = instance]_vars

\* A second call of init has completed after ticks had been accounted, and
\* the counters are still above zero.
InitAfterTicks ==
    /\ reinit
    /\ inits >= 2
    /\ callbacks = inits
    /\ Counted(unwrap(instance))

\* C10: the timer callback never meets an uninitialised manager. Whenever
\* update_cpu_statistics is registered, or a timer interrupt has callbacks
\* to run, the instance exists; CpuStatManager::get() has never panicked.
ManagerBeforeCallback ==
    /\ callbacks > 0 => instance # None
    /\ \A c \in CpuIds : irq[c].pending > 0 => instance # None
    /\ ~panicked

\* The callback has got the manager and is in the middle of an increment.
CallbackGotManager ==
    /\ callbacks > 0
    /\ \E c \in CpuIds : irq[c].pending > 0 /\ irq[c].pc = "global"

\* C12: a tick on CPU c writes only per_cpu[c] and the global bundle. Every
\* step of the timer callback on CPU c leaves every counter of the bundle of
\* every other CPU unchanged.
TickWritesOwnBundle ==
    [][\A c \in CpuIds :
          CallbackStep(c) =>
              /\ instance' # None
              /\ \A d \in CpuIds \ {c} : PerCpu(d)' = PerCpu(d)]_vars

\* Ticks have been accounted on one CPU while the bundle of another CPU is
\* still all zero.
OneCpuCountedOtherNot ==
    /\ instance # None
    /\ \E c \in CpuIds, d \in CpuIds :
          /\ c # d
          /\ TicksOn(c) > 0
          /\ PerCpu(c) # Cpustat_new
          /\ PerCpu(d) = Cpustat_new

\* the CPUs whose increment is between its two adds
BetweenAdds == {c \in CpuIds : irq[c].pc = "global"}

\* C18: the per-CPU sum runs ahead of the global counter by at most the
\* increments in flight. For every category k,
\* 0 <= (sum over CPUs of per_cpu[c].k) - global.k <= the number of tick
\* callbacks between their two adds <= num_cpus, and the two are equal when
\* no callback is between its adds.
SkewBounded ==
    instance # None =>
        \A k \in Categories :
            LET skew == PerCpuSum(k) - Global[k] IN
            /\ 0 <= skew
            /\ skew <= Cardinality(BetweenAdds)
            /\ Cardinality(BetweenAdds) <= num_cpus
            /\ BetweenAdds = {} => skew = 0

\* Two CPUs are between their adds for the same category: the skew is 2.
TwoInFlight ==
    /\ instance # None
    /\ \E k \in Categories :
          /\ PerCpuSum(k) - Global[k] = 2
          /\ Cardinality({c \in BetweenAdds : irq[c].k = k}) = 2

\* C20: a tick on a CPU without a current thread is never counted as idle.
\* Every step of such a tick leaves the idle counters unchanged; its first
\* add raises per_cpu[c].system by one if the interrupted context was
\* kernel-mode and per_cpu[c].user otherwise, its second add raises the
\* same-named global counter, and no other counter changes.
NoThreadIsNotIdle ==
    [][\A c \in CpuIds :
          (CallbackStep(c) /\ irq[c].thread = "NoThread") =>
              LET k == IF irq[c].is_kernel THEN "system" ELSE "user" IN
              /\ instance' # None
              /\ \A f \in FieldSet \ {k} :
                    /\ PerCpu(c)'[f] = PerCpu(c)[f]
                    /\ Global'[f] = Global[f]
              /\ irq[c].pc = "none" =>
                    /\ PerCpu(c)'[k] = PerCpu(c)[k] + 1
                    /\ Global'[k] = Global[k]
              /\ irq[c].pc = "global" =>
                    /\ PerCpu(c)'[k] = PerCpu(c)[k]
                    /\ Global'[k] = Global[k] + 1]_vars

\* Ticks without a current thread are being accounted, one interrupted in
\* kernel mode and one in user mode.
NoThreadBothModes ==
    \E c \in CpuIds, d \in CpuIds :
        /\ irq[c].thread = "NoThread" /\ irq[c].is_kernel
        /\ irq[c].pc = "global" /\ irq[c].k = "system"
        /\ irq[d].thread = "NoThread" /\ ~irq[d].is_kernel
        /\ irq[d].pc = "global" /\ irq[d].k = "user"

\* the counters of the bundle the reader is reading, as they are now
TargetNow == load(bundle_of(unwrap(instance), rd.target))

\* the reader has made a step
ReaderStep == rd' # rd

\* C11: after init, get_global() and get_on_cpu(c) with c < num_cpus always
\* return a snapshot, without blocking and without faulting, whatever the
\* ticks do in between. No step of such a read faults or changes a counter;
\* each step of the load reads the next field and the step that reads the
\* last of the ten returns; and a load in progress never waits: whenever
\* its task runs, its next step can be taken.
ReadsReturn ==
    /\ [][(ReaderStep /\ rd'.target < num_cpus) =>
              /\ ~panicked'
              /\ instance' = instance
              /\ rd'.pc \in {"load", "done"}
              /\ rd.pc = "load" =>
                    /\ rd'.pos = rd.pos + 1
                    /\ rd'.pc = "done" <=> rd.pos = Len(Fields)]_vars
    /\ [](rd.pc = "load" /\ rd.target < num_cpus /\ TaskRuns
              => ENABLED LoadField)

\* A read of a per-CPU bundle has returned, and a tick was accounted there
\* between two of its field loads.
ReadAcrossTick ==
    /\ rd.pc = "done"
    /\ rd.op = "get_on_cpu"
    /\ rd.target \in CpuIds
    /\ \E f \in FieldSet : rd.snap[f] > rd.begin[f]

\* the counters nothing accounts
Placeholders == FieldSet \ Categories

\* C13: the seven placeholder counters nice, iowait, irq, softirq, steal,
\* guest and guest_nice are 0 in every bundle in every reachable state, and
\* in every snapshot a read holds or has returned.
PlaceholdersZero ==
    \A f \in Placeholders :
        /\ rd.pc \in {"load", "done"} => rd.snap[f] = 0
        /\ instance # None =>
              /\ Global[f] = 0
              /\ \A c \in CpuIds : PerCpu(c)[f] = 0

\* A read has returned a snapshot with an accounted counter above zero and
\* every placeholder at zero.
SnapshotAfterTicks ==
    /\ rd.pc = "done"
    /\ rd.op = "get_global"
    /\ \E k \in Categories : rd.snap[k] > 0
    /\ \A f \in Placeholders : rd.snap[f] = 0

\* C16: get_on_cpu(cpu) with cpu >= num_cpus is not guarded. The call ends
\* in the out-of-bounds panic: no load begins, no snapshot is returned, and
\* every counter is as it was.
OutOfRangeReadFaults ==
    [][(ReaderStep /\ rd'.target >= num_cpus) =>
          /\ panicked'
          /\ rd'.pc = "fault"
          /\ rd'.snap = NoSnapshot
          /\ instance' = instance]_vars

\* get_on_cpu was called with a cpu out of range after ticks were accounted.
OutOfRangeReadMade ==
    /\ panicked
    /\ rd.op = "get_on_cpu"
    /\ rd.target >= num_cpus
    /\ Global # Cpustat_new

\* C17: each field of a snapshot is the value its counter held at some
\* instant of the read. Every field loaded so far is >= the counter's value
\* when the read was called and <= its value now (and so <= its value when
\* the read returns); fields are loaded in the order of Fields, so those not
\* loaded yet are the ones from rd.pos on.
FieldsWithinTheRead ==
    (rd.op \in Accessors /\ rd.pc \in {"load", "done"}) =>
        \A i \in 1..Len(Fields) :
            LET f == Fields[i] IN
            IF i < rd.pos
            THEN /\ rd.begin[f] <= rd.snap[f]
                 /\ rd.snap[f] <= TargetNow[f]
            ELSE rd.snap[f] = Unfilled[f]

\* A snapshot whose fields come from different instants: user was loaded
\* before a tick raised it, system after a tick that came after the call.
FieldsOfDifferentInstants ==
    /\ rd.op \in Accessors
    /\ rd.pc = "done"
    /\ rd.snap["user"] < TargetNow["user"]
    /\ rd.snap["system"] > rd.begin["system"]

\* a render of /proc/stat has produced all its lines
Rendered == rd.op = "stat" /\ rd.pc = "done"

\* the sum of value i over the cpuN lines
CpuLinesSum(i) ==
    SumTo([j \in 0..(Len(rd.lines) - 1) |->
              IF rd.lines[j + 1].label # GlobalTarget
              THEN rd.lines[j + 1].values[i] ELSE 0],
          Len(rd.lines))

\* the sum of value i over the 'cpu' summary lines (there is one)
SummaryLinesSum(i) ==
    SumTo([j \in 0..(Len(rd.lines) - 1) |->
              IF rd.lines[j + 1].label = GlobalTarget
              THEN rd.lines[j + 1].values[i] ELSE 0],
          Len(rd.lines))

\* C15: when no tick callback is in progress at any time during a render of
\* /proc/stat, the output is the 'cpu' line followed by exactly one line
\* cpuN for each N in 0..num_cpus-1, in ascending order, and each of the ten
\* values of the 'cpu' line equals the sum of that value over the cpuN lines.
StatSummaryIsSum ==
    Rendered =>
        /\ Len(rd.lines) = num_cpus + 1
        /\ rd.lines[1].label = GlobalTarget
        /\ \A n \in CpuIds : rd.lines[n + 2].label = n
        /\ \A i \in 1..Len(Fields) :
              rd.lines[1].values[i] = CpuLinesSum(i)

\* /proc/stat was rendered for several CPUs with no tick during the render,
\* after ticks accounted on different CPUs.
QuietRenderOfTwoCpus ==
    /\ Rendered
    /\ num_cpus > 1
    /\ \A n \in CpuIds : rd.lines[n + 2].values # rd.lines[1].values
    /\ \E i \in 1..Len(Fields) : rd.lines[1].values[i] > 1

\* C19: within one render of /proc/stat, whatever ticks run during it, each
\* value of the 'cpu' summary line is less than or equal to the sum of the
\* same value over the cpuN lines.
StatSummaryAtMostSum ==
    Rendered =>
        \A i \in 1..Len(Fields) : SummaryLinesSum(i) <= CpuLinesSum(i)

\* A render during which ticks were accounted: a summary value is below the
\* sum of the cpuN lines.
RenderAcrossTick ==
    /\ Rendered
    /\ \E i \in 1..Len(Fields) : SummaryLinesSum(i) < CpuLinesSum(i)

\* /proc/uptime has been produced: rd.uptime is the uptime it reports and
\* rd.snap["idle"] the idle time, both in ticks.
UptimeReported == rd.op = "uptime" /\ rd.pc = "done"

\* C14 as stated: the idle time /proc/uptime reports is less than or equal
\* to the uptime it reports, for any number of CPUs.
IdleAtMostUptime ==
    UptimeReported => rd.snap["idle"] <= rd.uptime

\* C14, amended: the idle time /proc/uptime reports is the global idle
\* counter, which every CPU's idle ticks raise: it is at most num_cpus times
\* the clock ticks elapsed when it is loaded, times the number of
\* registrations of the callback, and it is not bounded by the uptime
\* reported, which was read before it.
IdleAtMostAllCpusUptime ==
    UptimeReported => rd.snap["idle"] <= callbacks * num_cpus * now

\* /proc/uptime reported, for one registration of the callback, more idle
\* time than uptime.
IdleAboveUptime ==
    /\ UptimeReported
    /\ callbacks = 1
    /\ num_cpus > 1
    /\ rd.snap["idle"] > rd.uptime
    /\ rd.uptime > 0

====
